---- MODULE Spec2Model ----
(***************************************************************************)
(* Model of the log aggregation service (src/src/server.cpp, with          *)
(* src/src/logserver.hpp, src/src/main.cpp and src/loglevel.hpp).          *)
(*                                                                         *)
(* Two threads share logqueue: the main thread runs the constructor        *)
(* Logger::Logger and then the accept loop Logger::start (the Acceptor);   *)
(* the thread spawned by the constructor runs Logger::processQueue (the    *)
(* Committer).  Peers are the environment: each opens one TCP connection,  *)
(* writes a frame that arrives as a sequence of chunks and then closes or  *)
(* resets the connection.                                                  *)
(*                                                                         *)
(* LogClient::writeLog (src/src/client.cpp) is modelled on its own, as a   *)
(* client process whose system calls succeed or fail (ClientSpec).         *)
(*                                                                         *)
(* Bytes are their ASCII codes.  Strings are sequences of bytes.           *)
(***************************************************************************)
EXTENDS Integers, Sequences, FiniteSets, TLC

\* ------------------------------------------------------------ bounds

\* number of connections peers open over one run of the service
MaxConns == 2

\* number of calls of LogClient::writeLog one client process makes
MaxCalls == 3

\* size of the read buffer (LINE_MAX of <climits>, scaled down); a read
\* returns at most LINE_MAX - 1 bytes
LINE_MAX == 5

\* width of the banner's divider lines (79 dashes in the source, scaled
\* down) and of the indentation of its title (34 spaces, scaled down)
DividerWidth == 3
TitleIndent == 2

\* ------------------------------------------------------- severities

HEADER == 0
INFO == 1
DEBUG == 2
ERROR == 3

\* ------------------------------------------------------------ bytes

Ord ==
  [c \in {"NUL", "LF", "ESC", " ", "-", ":", "[", ";",
          "0", "1", "2", "3", "6", "9",
          "D", "E", "I", "L", "N",
          "a", "b", "c", "e", "f", "g", "h", "m", "n", "o", "r", "u", "w",
          "x", "z"} |->
     CASE c = "NUL" -> 0   [] c = "LF" -> 10  [] c = "ESC" -> 27
       [] c = " " -> 32    [] c = "-" -> 45   [] c = ":" -> 58
       [] c = "[" -> 91    [] c = ";" -> 59
       [] c = "0" -> 48    [] c = "1" -> 49   [] c = "2" -> 50
       [] c = "3" -> 51    [] c = "6" -> 54   [] c = "9" -> 57
       [] c = "D" -> 68    [] c = "E" -> 69   [] c = "I" -> 73
       [] c = "L" -> 76    [] c = "N" -> 78
       [] c = "a" -> 97    [] c = "b" -> 98   [] c = "c" -> 99
       [] c = "e" -> 101   [] c = "f" -> 102  [] c = "g" -> 103
       [] c = "h" -> 104   [] c = "m" -> 109  [] c = "n" -> 110
       [] c = "o" -> 111   [] c = "r" -> 114  [] c = "u" -> 117
       [] c = "w" -> 119   [] c = "x" -> 120  [] c = "z" -> 122]

\* the string whose characters are named by cs
Str(cs) == [i \in 1..Len(cs) |-> Ord[cs[i]]]

\* n copies of the character c
Rep(c, n) == [i \in 1..n |-> Ord[c]]

\* ------------------------------------------------- Frame Reader parts

\* char buf[LINE_MAX] = {0}; and memset(buf, 0, LINE_MAX);
ZeroBuf == [i \in 1..LINE_MAX |-> 0]

\* The buffer after read(msg_d, buf, LINE_MAX - 1) returned Len(chunk): the
\* chunk overwrites the first bytes of buf, the others stay as they were.
BufAfterRead(old, chunk) ==
  [i \in 1..LINE_MAX |-> IF i <= Len(chunk) THEN chunk[i] ELSE old[i]]

\* for (; buf_start < LINE_MAX && buf[buf_start] != ':'; buf_start++);
\* the C index the scan started at buf_start stops at: that of the first ':'
\* of buf, LINE_MAX when there is none
ScanColon(buf, buf_start) ==
  LET scan[i \in 0..LINE_MAX] ==
        IF i < LINE_MAX /\ buf[i + 1] # Ord[":"] THEN scan[i + 1] ELSE i
  IN scan[buf_start]

\* the C string that starts at C index start of buf: the bytes up to the
\* first zero byte (buf[LINE_MAX - 1] is always zero)
CString(buf, start) ==
  LET rest[i \in 0..LINE_MAX] ==
        IF i >= LINE_MAX \/ buf[i + 1] = 0
        THEN << >>
        ELSE <<buf[i + 1]>> \o rest[i + 1]
  IN rest[IF start > LINE_MAX THEN LINE_MAX ELSE start]

\* isspace of the C locale
IsSpace(b) == b \in {32, 9, 10, 11, 12, 13}

IsDigit(b) == b >= Ord["0"] /\ b <= Ord["9"]

\* strtol(s, NULL, 10): white space, an optional sign, then digits; the
\* value is 0 when there is no digit.  (A prefix held by the model's buffer
\* has fewer than LINE_MAX digits, so the value never leaves the range of
\* long and errno is never set to ERANGE.)
strtol(s) ==
  LET n == Len(s)
      \* index of the first byte at or after i that is no white space
      skip[i \in 1..(n + 1)] ==
        IF i <= n /\ IsSpace(s[i]) THEN skip[i + 1] ELSE i
      b == skip[1]
      signed == b <= n /\ s[b] \in {Ord["-"], 43}
      neg == b <= n /\ s[b] = Ord["-"]
      d == IF signed THEN b + 1 ELSE b
      \* index of the first byte at or after i that is no digit
      stop[i \in 1..(n + 1)] ==
        IF i <= n /\ IsDigit(s[i]) THEN stop[i + 1] ELSE i
      \* value of the digits s[d..k]
      acc[k \in 0..n] ==
        IF k < d THEN 0 ELSE acc[k - 1] * 10 + (s[k] - Ord["0"])
      v == acc[stop[d] - 1]
  IN IF neg THEN 0 - v ELSE v

\* faulty variant: the scan's result is compared with the wrong bound
NoDelimiterOffByOne(buf_start) == buf_start = LINE_MAX + 1

\* if (buf_start == LINE_MAX): no ':' in the buffer
NoDelimiter(buf_start) == buf_start = LINE_MAX

\* faulty variant: the range assertion admits every one-digit value
LevelAssertsOneDigit(err, l) == err = 0 /\ l >= 0 /\ l <= 9

\* assert(errno == 0); assert(l >= 0 && l <= 3);
LevelAsserts(err, l) == err = 0 /\ l >= 0 /\ l <= 3

\* ------------------------------------------------------- Committer parts

\* "\e[0m", "\e[0;36m", "\e[0;93m", "\e[0;91m"
Reset == Str(<<"ESC", "[", "0", "m">>)
Cyan == Str(<<"ESC", "[", "0", ";", "3", "6", "m">>)
Yellow == Str(<<"ESC", "[", "0", ";", "9", "3", "m">>)
Red == Str(<<"ESC", "[", "0", ";", "9", "1", "m">>)

\* auto apply = [&message](std::string colour) {...}
apply(colour, message) == colour \o message \o Reset

\* the text of the startup banner: a divider line, the indented title and
\* a divider line
header ==
  Rep("-", DividerWidth) \o Str(<<"LF">>)
  \o Rep(" ", TitleIndent) \o Str(<<"N", "e", "w", " ", "L", "o", "g", "LF">>)
  \o Rep("-", DividerWidth) \o Str(<<"LF">>)


\* switch (level) {...}; if (file == STDOUT) message += "\e[0m";
\* the message before the trailing-newline test, for a level in 0..3
Styled(level, message, tty) ==
  LET m == CASE level = HEADER ->
                  IF tty THEN apply(Reset, message) ELSE message
             [] level = INFO ->
                  IF tty
                  THEN apply(Cyan, Str(<<"I", "n", "f", "o", ":", " ">>) \o message)
                  ELSE Str(<<"I", "n", "f", "o", ":", " ">>) \o message
             [] level = DEBUG ->
                  IF tty
                  THEN apply(Yellow, Str(<<"D", "e", "b", "u", "g", ":", " ">>) \o message)
                  ELSE Str(<<"D", "e", "b", "u", "g", ":", " ">>) \o message
             [] level = ERROR ->
                  IF tty
                  THEN apply(Red, Str(<<"E", "r", "r", "o", "r", ":", " ">>) \o message)
                  ELSE Str(<<"E", "r", "r", "o", "r", ":", " ">>) \o message
  IN IF tty THEN m \o Reset ELSE m

\* if (message[message.size() - 1] != '\n') message += "\n";
\* the byte strings write(file, msg, message.size()) can be handed for a
\* level in 0..3.  For an empty message the test reads message[SIZE_MAX],
\* outside the string: either outcome of the test is possible.
commitLog(level, message, tty) ==
  LET m == Styled(level, message, tty)
  IN IF m = << >>
     THEN {m, m \o Str(<<"LF">>)}
     ELSE IF m[Len(m)] # Ord["LF"] THEN {m \o Str(<<"LF">>)} ELSE {m}

\* ------------------------------------------------------------ peers

\* What one connection delivers: the chunks successive reads return, then
\* how the connection ends: "close" (read returns 0) or "reset" (read
\* returns -1 and sets errno).
Frame(chunks, end) == [chunks |-> chunks, end |-> end]

Frames ==
  { \* what LogClient::writeLog sends for INFO "a": the text and its NUL
    Frame(<<Str(<<"1", ":", "a", "NUL">>)>>, "close"),
    \* a DEBUG frame that arrives in two chunks
    Frame(<<Str(<<"2", ":", "b">>), Str(<<"c", "LF">>)>>, "close"),
    \* an ERROR frame whose ':' is the last byte of a full first chunk and
    \* whose second chunk holds another ':'
    Frame(<<Rep("0", LINE_MAX - 3) \o Str(<<"3", ":">>), Str(<<"z", ":">>)>>,
          "close"),
    \* a connection that fails after its first chunk
    Frame(<<Str(<<"1", ":", "a">>)>>, "reset"),
    \* a connection closed with nothing sent
    Frame(<< >>, "close"),
    \* the banner's severity, sent by a peer
    Frame(<<Str(<<"0", ":", "h">>)>>, "close"),
    \* prefixes out of range
    Frame(<<Str(<<"9", ":", "x">>)>>, "close"),
    Frame(<<Str(<<"-", "1", ":", "x">>)>>, "close"),
    \* prefixes that are no number
    Frame(<<Str(<<":", "m">>)>>, "close"),
    Frame(<<Str(<<"a", ":", "m">>)>>, "close"),
    \* first chunks without ':': a full one and a one-byte one
    Frame(<<Rep("a", LINE_MAX - 1), Str(<<":", "c">>)>>, "close"),
    Frame(<<Str(<<"1">>), Str(<<":", "a">>)>>, "close") }

\* a connection: its id, the chunks not yet read, its ending, and (history)
\* all the chunks of its frame
Conn(id, f) == [id |-> id, chunks |-> f.chunks, end |-> f.end, frame |-> f.chunks]

\* the origin of the banner: no connection
NoConn == [id |-> 0, chunks |-> << >>, end |-> "none", frame |-> << >>]

\* the values an uninitialised uint8_t may hold
IndeterminateLevels == {0, 3, 255}

\* ------------------------------------------------------------ state

VARIABLES
  status,      \* "running", or how the process ended
  stdout,      \* file == STDOUT
  signum,      \* the signal sig_handler was called for, "none" before
  pcA,         \* where the main thread (constructor, then Acceptor) is,
               \* "exit" or "abort" once it has ended the process
  retA,        \* where pushQueue returns to
  arg,         \* pushQueue's argument log
  errnoA,      \* the main thread's errno
  backlog,     \* connections established and not yet accepted
  nconn,       \* connections opened so far
  open,        \* ids of the connections accepted and not yet closed
  msg_d,       \* the accepted connection: << >> or <<connection>>
  buf,         \* start()'s locals
  buf_start,
  bytes,
  first_read,
  msg,
  level,
  level_set,   \* whether level has been assigned since its declaration
  logqueue,
  logqueuelock,\* "free", "A" or "C": who holds the mutex
  pcC,         \* where the Committer thread is, "exit" once it has ended
               \* the process
  log,         \* processQueue's local log: << >> or <<record>>
  sink,        \* the byte strings written to file, in order
  stdio,       \* what printf put on the stream stdout: <<thread, text>>,
               \* flushed to descriptor STDOUT_FILENO by exit
  pushed,      \* history: every record pushed, with the connections it
               \* was read from
  msgsrc,      \* history: the connections whose bytes are in msg
  argconn,     \* history: the connection arg was read from
  pcW,         \* a client process: where it is in LogClient::writeLog
  errnoW,      \* the client process's errno
  fdW,         \* writeLog's local fd
  openW,       \* the sockets the client process holds open
  callW,       \* the call in progress: its arguments, whether a system
               \* call of it failed, the bytes it wrote
  results      \* history: every finished call with its return value

vars ==
  <<status, stdout, signum, pcA, retA, arg, errnoA, backlog, nconn, msg_d, buf, buf_start,
    bytes, first_read, msg, level, level_set, logqueue, logqueuelock, pcC, log,
    sink, stdio, pushed, msgsrc, argconn, open,
    pcW, errnoW, fdW, openW, callW, results>>

clientVars == <<pcW, errnoW, fdW, openW, callW, results>>

serverVars ==
  <<status, stdout, signum, pcA, retA, arg, errnoA, backlog, nconn, msg_d, buf,
    buf_start, bytes, first_read, msg, level, level_set, logqueue,
    logqueuelock, pcC, log, sink, stdio, pushed, msgsrc, argconn, open>>

acceptorVars ==
  <<pcA, retA, arg, errnoA, msg_d, buf, buf_start, bytes, first_read, msg, level, level_set, msgsrc,
    argconn, open>>

committerVars == <<pcC, log, sink>>

Running == status = "running"

\* no call of writeLog in progress
NoCall == [level |-> 0, log |-> << >>, failed |-> FALSE, wire |-> << >>]

Init ==
  /\ status = "running"
  /\ stdout \in BOOLEAN
  /\ signum = "none"
  /\ pcA = "setup"
  /\ retA = "spawn"
  /\ arg = <<HEADER, << >> >>
  /\ errnoA = 0
  /\ backlog = << >>
  /\ nconn = 0
  /\ msg_d = << >>
  /\ buf = ZeroBuf
  /\ buf_start = 0
  /\ bytes = 0
  /\ first_read = TRUE
  /\ msg = << >>
  /\ level = 0
  /\ level_set = FALSE
  /\ logqueue = << >>
  /\ logqueuelock = "free"
  /\ pcC = "notstarted"
  /\ log = << >>
  /\ sink = << >>
  /\ stdio = << >>
  /\ pushed = << >>
  /\ msgsrc = {}
  /\ argconn = NoConn
  /\ open = {}
  /\ pcW = "idle"
  /\ errnoW = 0
  /\ fdW = 0
  /\ openW = {}
  /\ callW = NoCall
  /\ results = << >>


\* ------------------------------------------------------------ peers act

\* A peer's connection is established (the kernel queues it on the
\* listening socket) and its frame and ending are in flight.
ConnectWith(frames) ==
  /\ Running
  /\ pcA \notin {"setup"}
  /\ nconn < MaxConns
  /\ \E f \in frames :
       backlog' = Append(backlog, Conn(nconn + 1, f))
  /\ nconn' = nconn + 1
  /\ UNCHANGED <<status, stdout, signum, clientVars, stdio, acceptorVars, logqueue, logqueuelock,
                 committerVars, pushed>>

Connect == ConnectWith(Frames)

\* A peer that sends a well-formed frame and closes: a severity digit of
\* INFO, DEBUG or ERROR, possibly with leading zeros, and ':' in the first
\* chunk.
WellFormedFrames ==
  { f \in Frames :
      /\ f.end = "close"
      /\ f.chunks # << >>
      /\ \E k \in 1..Len(f.chunks[1]) :
           /\ f.chunks[1][k] = Ord[":"]
           /\ k > 1
           /\ f.chunks[1][k - 1] \in {Ord["1"], Ord["2"], Ord["3"]}
           /\ \A j \in 1..(k - 2) : f.chunks[1][j] = Ord["0"] }

ConnectWellFormed == ConnectWith(WellFormedFrames)

\* ------------------------------------------------------ main thread

\* faulty variant: the constructor starts the Committer without pushing the banner
SetupNoBanner ==
  /\ Running
  /\ pcA = "setup"
  /\ pcA' = "spawn"
  /\ UNCHANGED <<status, stdout, signum, clientVars, stdio, retA, arg, errnoA, backlog, nconn, msg_d,
                 buf, buf_start, bytes, first_read, msg, level, level_set,
                 msgsrc, argconn, open,
                 logqueue, logqueuelock, committerVars, pushed>>

\* Logger::Logger up to the banner: open the sink, create, configure, bind
\* and listen on the socket; each failure exits with EXIT_FAILURE.
Setup ==
  /\ Running
  /\ pcA = "setup"
  /\ \E failure \in {"none", "open", "socket", "setsockopt", "bind", "listen"} :
       IF failure = "none"
       THEN /\ pcA' = "pq_lock"
            /\ arg' = <<HEADER, header>>
            /\ retA' = "spawn"
            /\ status' = status
       ELSE /\ status' = "exit_failure"
            /\ pcA' = "exit"
            /\ UNCHANGED <<arg, retA>>
  /\ UNCHANGED <<stdout, signum, clientVars, stdio, errnoA, backlog, nconn, msg_d, buf, buf_start, bytes,
                 first_read, msg, level, level_set, msgsrc, argconn, open,
                 logqueue, logqueuelock, committerVars, pushed>>

\* pushQueue: logqueuelock.lock();
PushLock ==
  /\ Running
  /\ pcA = "pq_lock"
  /\ logqueuelock = "free"
  /\ logqueuelock' = "A"
  /\ pcA' = "pq_push"
  /\ UNCHANGED <<status, stdout, signum, clientVars, stdio, retA, arg, errnoA, backlog, nconn, msg_d,
                 buf, buf_start, bytes, first_read, msg, level, level_set,
                 msgsrc, argconn, open,
                 logqueue, committerVars, pushed>>

\* pushQueue: logqueue.push(std::move(log));
PushPush ==
  /\ Running
  /\ pcA = "pq_push"
  /\ logqueue' = Append(logqueue, arg)
  /\ pushed' = Append(pushed, [rec |-> arg, src |-> msgsrc, conn |-> argconn])
  /\ pcA' = "pq_unlock"
  /\ UNCHANGED <<status, stdout, signum, clientVars, stdio, retA, arg, errnoA, backlog, nconn, msg_d,
                 buf, buf_start, bytes, first_read, msg, level, level_set,
                 msgsrc, argconn, open,
                 logqueuelock, committerVars>>

\* pushQueue: logqueuelock.unlock(); and return
PushUnlock ==
  /\ Running
  /\ pcA = "pq_unlock"
  /\ logqueuelock' = "free"
  /\ pcA' = retA
  /\ UNCHANGED <<status, stdout, signum, clientVars, stdio, retA, arg, errnoA, backlog, nconn, msg_d,
                 buf, buf_start, bytes, first_read, msg, level, level_set,
                 msgsrc, argconn, open,
                 logqueue, committerVars, pushed>>

\* std::thread qp_thread(&Logger::processQueue, this); this->start();
Spawn ==
  /\ Running
  /\ pcA = "spawn"
  /\ pcC' = "check"
  /\ pcA' = "accept"
  /\ UNCHANGED <<status, stdout, signum, clientVars, stdio, retA, arg, errnoA, backlog, nconn, msg_d,
                 buf, buf_start, bytes, first_read, msg, level, level_set,
                 msgsrc, argconn, open,
                 logqueue, logqueuelock, log, sink, pushed>>

\* faulty variant: msg is not emptied for the new connection
AcceptKeepMsg ==
  /\ Running
  /\ pcA = "accept"
  /\ backlog # << >>
  /\ backlog' = Tail(backlog)
  /\ msg_d' = <<Head(backlog)>>
  /\ open' = open \cup {Head(backlog).id}
  /\ IF errnoA # 0
     THEN /\ status' = "exit_failure"
          /\ pcA' = "exit"
          /\ UNCHANGED <<first_read, level_set>>
     ELSE /\ first_read' = TRUE
          /\ level_set' = FALSE
          /\ pcA' = "read"
          /\ status' = status
  /\ buf' = ZeroBuf
  /\ UNCHANGED <<stdout, signum, clientVars, stdio, retA, arg, errnoA, nconn, buf_start, bytes, level, argconn,
                 logqueue, logqueuelock, committerVars, pushed, msg, msgsrc>>

\* start(): accept returns a connection; errno is then tested, whatever
\* set it; the locals of the loop body are declared.
Accept ==
  /\ Running
  /\ pcA = "accept"
  /\ backlog # << >>
  /\ backlog' = Tail(backlog)
  /\ msg_d' = <<Head(backlog)>>
  /\ open' = open \cup {Head(backlog).id}
  /\ IF errnoA # 0
     THEN /\ status' = "exit_failure"
          /\ pcA' = "exit"
          /\ UNCHANGED <<first_read, msg, level_set, msgsrc>>
     ELSE /\ first_read' = TRUE
          /\ msg' = << >>
          /\ level_set' = FALSE
          /\ msgsrc' = {}
          /\ pcA' = "read"
          /\ status' = status
  /\ buf' = ZeroBuf
  /\ UNCHANGED <<stdout, signum, clientVars, stdio, retA, arg, errnoA, nconn, buf_start, bytes, level, argconn,
                 logqueue, logqueuelock, committerVars, pushed>>

\* start(): accept fails and sets errno
AcceptFail ==
  /\ Running
  /\ pcA = "accept"
  /\ errnoA' = 1
  /\ status' = "exit_failure"
  /\ pcA' = "exit"
  /\ UNCHANGED <<stdout, signum, clientVars, stdio, retA, arg, backlog, nconn, msg_d, buf, buf_start,
                 bytes, first_read, msg, level, level_set, msgsrc, argconn,
                 open, logqueue, logqueuelock, committerVars, pushed>>

\* while ((bytes = read(msg_d, buf, LINE_MAX - 1)) > 0): the read returns
\* the next chunk
ReadData ==
  /\ Running
  /\ pcA = "read"
  /\ msg_d[1].chunks # << >>
  /\ buf' = BufAfterRead(buf, Head(msg_d[1].chunks))
  /\ bytes' = Len(Head(msg_d[1].chunks))
  /\ msg_d' = <<[msg_d[1] EXCEPT !.chunks = Tail(@)]>>
  /\ pcA' = "body"
  /\ UNCHANGED <<status, stdout, signum, clientVars, stdio, retA, arg, errnoA, backlog, nconn,
                 buf_start, first_read, msg, level, level_set, msgsrc, argconn,
                 open, logqueue, logqueuelock, committerVars, pushed>>

\* loop body, first read: the scan for ':' finds none:
\* printf("invalid message"); exit(EXIT_FAILURE);
ReadNoDelimiter ==
  /\ Running
  /\ pcA = "body"
  /\ first_read
  /\ NoDelimiter(ScanColon(buf, 0))
  /\ buf_start' = ScanColon(buf, 0)
  /\ stdio' = Append(stdio, <<"A", "invalid message">>)
  /\ status' = "exit_failure"
  /\ pcA' = "exit"
  /\ UNCHANGED <<stdout, signum, clientVars, retA, arg, errnoA, backlog, nconn, msg_d, buf,
                 bytes, first_read, msg, level, level_set, msgsrc, argconn,
                 open, logqueue, logqueuelock, committerVars, pushed>>

\* loop body, first read: the scan stops at a ':'; buf[buf_start] = '\0';
ReadScan ==
  /\ Running
  /\ pcA = "body"
  /\ first_read
  /\ ~NoDelimiter(ScanColon(buf, 0))
  /\ buf_start' = ScanColon(buf, 0)
  /\ buf' = [buf EXCEPT ![ScanColon(buf, 0) + 1] = 0]
  /\ pcA' = "parse"
  /\ UNCHANGED <<status, stdout, signum, clientVars, stdio, retA, arg, errnoA, backlog, nconn, msg_d,
                 bytes, first_read, msg, level, level_set, msgsrc, argconn,
                 open, logqueue, logqueuelock, committerVars, pushed>>

\* loop body, first read: long l = strtol(buf, NULL, 10); an assertion
\* fails: abort
ReadAssertFails ==
  /\ Running
  /\ pcA = "parse"
  /\ ~LevelAsserts(errnoA, strtol(CString(buf, 0)))
  /\ status' = "abort"
  /\ pcA' = "abort"
  /\ UNCHANGED <<stdout, signum, clientVars, stdio, retA, arg, errnoA, backlog, nconn, msg_d, buf,
                 buf_start, bytes, first_read, msg, level, level_set, msgsrc,
                 argconn, open, logqueue, logqueuelock, committerVars, pushed>>

\* loop body, first read: long l = strtol(buf, NULL, 10); the assertions
\* hold; level = l; buf_start++; first_read = false; then the bytes from
\* buf_start up to the first zero byte start the message; memset
ReadFirst ==
  /\ Running
  /\ pcA = "parse"
  /\ LevelAsserts(errnoA, strtol(CString(buf, 0)))
  /\ level' = strtol(CString(buf, 0))
  /\ level_set' = TRUE
  /\ buf_start' = buf_start + 1
  /\ first_read' = FALSE
  /\ msg' = msg \o CString(buf, buf_start + 1)
  /\ msgsrc' = msgsrc \cup {msg_d[1].id}
  /\ buf' = ZeroBuf
  /\ pcA' = "read"
  /\ UNCHANGED <<status, stdout, signum, clientVars, stdio, retA, arg, errnoA, backlog, nconn, msg_d,
                 bytes, argconn, open, logqueue, logqueuelock, committerVars,
                 pushed>>

\* loop body, a later read: size_t buf_start = 0; the bytes of the buffer up
\* to the first zero byte are appended to the message; memset
ReadMore ==
  /\ Running
  /\ pcA = "body"
  /\ ~first_read
  /\ buf_start' = 0
  /\ msg' = msg \o CString(buf, 0)
  /\ msgsrc' = msgsrc \cup {msg_d[1].id}
  /\ buf' = ZeroBuf
  /\ pcA' = "read"
  /\ UNCHANGED <<status, stdout, signum, clientVars, stdio, retA, arg, errnoA, backlog, nconn, msg_d,
                 bytes, first_read, level, level_set, argconn, open, logqueue,
                 logqueuelock, committerVars, pushed>>

\* The read that ends the loop: 0 when the peer closed, -1 with errno set
\* when the connection failed; then close(msg_d) and the call of pushQueue
\* with make_pair(level, msg).  level is read whether or not it was
\* assigned.
ReadEnd ==
  /\ Running
  /\ pcA = "read"
  /\ msg_d[1].chunks = << >>
  /\ errnoA' = IF msg_d[1].end = "reset" THEN 1 ELSE errnoA
  /\ bytes' = IF msg_d[1].end = "reset" THEN 0 - 1 ELSE 0
  /\ msg_d' = << >>
  /\ open' = open \ {msg_d[1].id}
  /\ argconn' = msg_d[1]
  /\ \E lv \in (IF level_set THEN {level} ELSE IndeterminateLevels) :
       arg' = <<lv, msg>>
  /\ retA' = "accept"
  /\ pcA' = "pq_lock"
  /\ UNCHANGED <<status, stdout, signum, clientVars, stdio, backlog, nconn, buf, buf_start, first_read,
                 msg, level,
                 level_set, msgsrc, logqueue, logqueuelock, committerVars,
                 pushed>>

\* ------------------------------------------------------ Committer thread

\* faulty variant: popQueue is called without waiting for a record
CheckQueueNoWait ==
  /\ Running
  /\ pcC = "check"
  /\ pcC' = "pop_lock"
  /\ UNCHANGED <<status, stdout, signum, clientVars, stdio, acceptorVars, backlog, nconn, logqueue,
                 logqueuelock, log, sink, pushed>>

\* processQueue: one evaluation of logqueue.empty(), made without the
\* mutex.  While the main thread is inside logqueue.push the read races
\* with the write and may return either answer.
CheckQueue ==
  /\ Running
  /\ pcC = "check"
  /\ \E empty \in (IF pcA = "pq_push" THEN BOOLEAN ELSE {logqueue = << >>}) :
       pcC' = IF empty THEN "spin" ELSE "pop_lock"
  /\ UNCHANGED <<status, stdout, signum, clientVars, stdio, acceptorVars, backlog, nconn, logqueue,
                 logqueuelock, log, sink, pushed>>

\* faulty variant: the emptiness test is evaluated once and the loop never
\* looks at the queue again
SpinHoisted ==
  /\ Running
  /\ pcC = "spin"
  /\ UNCHANGED vars

\* processQueue: the empty body of while (logqueue.empty()) {}
Spin ==
  /\ Running
  /\ pcC = "spin"
  /\ pcC' = "check"
  /\ UNCHANGED <<status, stdout, signum, clientVars, stdio, acceptorVars, backlog, nconn, logqueue,
                 logqueuelock, log, sink, pushed>>

\* popQueue: logqueuelock.lock();
PopLock ==
  /\ Running
  /\ pcC = "pop_lock"
  /\ logqueuelock = "free"
  /\ logqueuelock' = "C"
  /\ pcC' = "pop_front"
  /\ UNCHANGED <<status, stdout, signum, clientVars, stdio, acceptorVars, backlog, nconn, logqueue,
                 log, sink, pushed>>

\* faulty variant: popQueue takes the newest record instead of the oldest
PopBack ==
  /\ Running
  /\ pcC = "pop_front"
  /\ logqueue # << >>
  /\ log' = <<logqueue[Len(logqueue)]>>
  /\ logqueue' = SubSeq(logqueue, 1, Len(logqueue) - 1)
  /\ pcC' = "pop_unlock"
  /\ UNCHANGED <<status, stdout, signum, clientVars, stdio, acceptorVars, backlog, nconn, logqueuelock,
                 sink, pushed>>

\* popQueue: _ret = logqueue.front(); logqueue.pop();
\* (front and pop of an empty queue are undefined: any record may come back)
PopFront ==
  /\ Running
  /\ pcC = "pop_front"
  /\ IF logqueue # << >>
     THEN /\ log' = <<Head(logqueue)>>
          /\ logqueue' = Tail(logqueue)
     ELSE /\ \E lv \in IndeterminateLevels : log' = << <<lv, << >> >> >>
          /\ logqueue' = logqueue
  /\ pcC' = "pop_unlock"
  /\ UNCHANGED <<status, stdout, signum, clientVars, stdio, acceptorVars, backlog, nconn, logqueuelock,
                 sink, pushed>>

\* popQueue: logqueuelock.unlock(); return _ret;
PopUnlock ==
  /\ Running
  /\ pcC = "pop_unlock"
  /\ logqueuelock' = "free"
  /\ pcC' = "commit"
  /\ UNCHANGED <<status, stdout, signum, clientVars, stdio, acceptorVars, backlog, nconn, logqueue,
                 log, sink, pushed>>

\* processQueue: commitLog(log.first, log.second): one write of the
\* formatted record, or printf and exit(EXIT_FAILURE) for a level outside
\* 0..3
Commit ==
  /\ Running
  /\ pcC = "commit"
  /\ IF log[1][1] \in {HEADER, INFO, DEBUG, ERROR}
     THEN /\ \E out \in commitLog(log[1][1], log[1][2], stdout) :
               sink' = Append(sink, out)
          /\ pcC' = "check"
          /\ log' = << >>
          /\ status' = status
          /\ stdio' = stdio
     ELSE /\ stdio' = Append(stdio, <<"C", "invalid log level when commiting log">>)
          /\ status' = "exit_failure"
          /\ pcC' = "exit"
          /\ UNCHANGED <<log, sink>>
  /\ UNCHANGED <<stdout, signum, clientVars, acceptorVars, backlog, nconn, logqueue,
                 logqueuelock, pushed>>

\* ------------------------------------------------------ signals

\* the signals main registers sig_handler for
HandledSignals == {"SIGINT", "SIGTERM", "SIGSEGV"}

\* sig_handler: SIGINT, SIGTERM or SIGSEGV arrives; exit(EXIT_SUCCESS)
Signal ==
  /\ Running
  /\ \E s \in HandledSignals : signum' = s
  /\ status' = "exit_success"
  /\ UNCHANGED <<stdout, clientVars, stdio, acceptorVars, backlog, nconn, logqueue,
                 logqueuelock, committerVars, pushed>>

\* the main thread's steps that keep the service running
AcceptorRun ==
  \/ Setup \/ PushLock \/ PushPush \/ PushUnlock \/ Spawn
  \/ Accept \/ ReadData \/ ReadScan \/ ReadFirst \/ ReadMore \/ ReadEnd

\* the main thread's steps
AcceptorStep == AcceptorRun \/ AcceptFail \/ ReadNoDelimiter \/ ReadAssertFails

CommitterStep ==
  \/ CheckQueue \/ Spin \/ PopLock \/ PopFront \/ PopUnlock \/ Commit

Next == Connect \/ AcceptorStep \/ CommitterStep \/ Signal

Spec == Init /\ [][Next]_vars


\* The service with peers that send well-formed frames only, no failing
\* accept and no signal; both threads are scheduled fairly, and nothing
\* forces a peer to connect.
WellFormedNext == ConnectWellFormed \/ AcceptorRun \/ CommitterStep

FairSpec ==
  /\ Init
  /\ [][WellFormedNext]_vars
  /\ WF_vars(AcceptorRun)
  /\ WF_vars(CommitterStep)

\* ------------------------------------------------------ the client

\* std::to_string of a severity
RECURSIVE to_string(_)
to_string(n) ==
  IF n < 10 THEN <<Ord["0"] + n>>
  ELSE to_string(n \div 10) \o <<Ord["0"] + (n % 10)>>

\* LogClient::format_log: log = std::to_string(level) + ":" + log;
format_log(lv, text) == to_string(lv) \o Str(<<":">>) \o text

\* the severities and texts writeLog is called with
ClientLevels == {INFO, DEBUG, ERROR}
ClientLogs == {Str(<<"a">>), Str(<<"b", "LF">>)}

\* writeLog returns ret: the call is recorded with what it leaves open
Return(ret, call, stillOpen) ==
  /\ results' = Append(results, [ret |-> ret, failed |-> call.failed,
                                 wire |-> call.wire, open |-> stillOpen])
  /\ callW' = NoCall
  /\ pcW' = "idle"

\* a caller enters writeLog(level, log)
WriteLogCall ==
  /\ pcW = "idle"
  /\ Len(results) < MaxCalls
  /\ \E lv \in ClientLevels : \E text \in ClientLogs :
       callW' = [level |-> lv, log |-> text, failed |-> FALSE, wire |-> << >>]
  /\ pcW' = "socket"
  /\ UNCHANGED <<serverVars, errnoW, fdW, openW, results>>

\* ssize_t fd = socket(AF_INET, SOCK_STREAM, 0); if (errno != 0) return -1;
\* socket sets errno when it fails and leaves it alone when it succeeds
WriteLogSocket ==
  /\ pcW = "socket"
  /\ \E ok \in BOOLEAN :
       LET fd == IF ok THEN Len(results) + 1 ELSE 0 - 1
           held == IF ok THEN openW \cup {fd} ELSE openW
           err == IF ok THEN errnoW ELSE 1
       IN /\ fdW' = fd
          /\ openW' = held
          /\ errnoW' = err
          /\ IF err # 0
             THEN Return(0 - 1, [callW EXCEPT !.failed = ~ok], held)
             ELSE /\ pcW' = "connect"
                  /\ UNCHANGED <<callW, results>>
  /\ UNCHANGED serverVars

\* if (connect(fd, ...) < 0) { close(fd); return -1; }
WriteLogConnect ==
  /\ pcW = "connect"
  /\ \E ok \in BOOLEAN :
       IF ok
       THEN /\ pcW' = "write"
            /\ UNCHANGED <<errnoW, openW, callW, results>>
       ELSE /\ errnoW' = 1
            /\ openW' = openW \ {fdW}
            /\ Return(0 - 1, [callW EXCEPT !.failed = TRUE], openW \ {fdW})
  /\ UNCHANGED <<serverVars, fdW>>

\* LogClient::format_log(level, log);
\* if (write(fd, log.c_str(), log.size() + 1) < 0) { close(fd); return -1; }
WriteLogWrite ==
  /\ pcW = "write"
  /\ \E ok \in BOOLEAN :
       IF ok
       THEN /\ callW' = [callW EXCEPT
                           !.wire = format_log(callW.level, callW.log)
                                      \o Str(<<"NUL">>)]
            /\ pcW' = "close"
            /\ UNCHANGED <<errnoW, openW, results>>
       ELSE /\ errnoW' = 1
            /\ openW' = openW \ {fdW}
            /\ Return(0 - 1, [callW EXCEPT !.failed = TRUE], openW \ {fdW})
  /\ UNCHANGED <<serverVars, fdW>>

\* close(fd); return 0;
WriteLogClose ==
  /\ pcW = "close"
  /\ openW' = openW \ {fdW}
  /\ Return(0, callW, openW \ {fdW})
  /\ UNCHANGED <<serverVars, errnoW, fdW>>

ClientNext ==
  \/ WriteLogCall \/ WriteLogSocket \/ WriteLogConnect \/ WriteLogWrite
  \/ WriteLogClose

\* a client process on its own: every system call may succeed or fail
ClientSpec == Init /\ [][ClientNext]_vars

\* ------------------------------------------------- frames, as sent

\* the first chunk of the frame holds a ':'
HasColon(chunk) == \E i \in 1..Len(chunk) : chunk[i] = Ord[":"]

\* the bytes of the chunk before its first ':'
Prefix(chunk) ==
  LET i == CHOOSE k \in 1..Len(chunk) :
             chunk[k] = Ord[":"] /\ \A j \in 1..(k - 1) : chunk[j] # Ord[":"]
  IN SubSeq(chunk, 1, i - 1)

\* the digits of p when p is written as [-]digits, << >> otherwise
Digits(p) ==
  LET d == IF p # << >> /\ p[1] = Ord["-"] THEN Tail(p) ELSE p
  IN IF \A i \in 1..Len(d) : IsDigit(d[i]) THEN d ELSE << >>

RECURSIVE Decimal(_)
Decimal(d) ==
  IF d = << >> THEN 0
  ELSE 10 * Decimal(SubSeq(d, 1, Len(d) - 1)) + (d[Len(d)] - Ord["0"])

\* the number a prefix [-]digits denotes
DecimalValue(p) ==
  IF p[1] = Ord["-"] THEN 0 - Decimal(Digits(p)) ELSE Decimal(Digits(p))

\* the prefix before the first ':' is a base-10 integer outside 0..3
OutOfRangeFrame(frame) ==
  /\ frame # << >>
  /\ HasColon(frame[1])
  /\ Digits(Prefix(frame[1])) # << >>
  /\ DecimalValue(Prefix(frame[1])) \notin 0..3

\* the prefix before the first ':' is empty or starts with no digit, and is
\* no integer
NonNumericFrame(frame) ==
  /\ frame # << >>
  /\ HasColon(frame[1])
  /\ Digits(Prefix(frame[1])) = << >>
  /\ Prefix(frame[1]) = << >> \/ ~IsDigit(Prefix(frame[1])[1])

\* the first chunk holds no ':'
NoColonFrame(frame) == frame # << >> /\ ~HasColon(frame[1])

\* the frames of each kind among those peers send
SentFrames == {f.chunks : f \in Frames}
OutOfRangeFrames == {c \in SentFrames : OutOfRangeFrame(c)}
NonNumericFrames == {c \in SentFrames : NonNumericFrame(c)}
NoColonFrames == {c \in SentFrames : NoColonFrame(c)}

\* the main thread is inside pushQueue called from start()
InClientPush == pcA \in {"pq_lock", "pq_push", "pq_unlock"} /\ retA = "accept"

\* the first chunk of the accepted connection has been read
FirstChunkRead ==
  msg_d # << >> /\ Len(msg_d[1].chunks) < Len(msg_d[1].frame)

\* the main thread has the first chunk in buf and has not finished the loop
\* body on it
InFirstBody == pcA \in {"body", "parse"} /\ first_read

Records == [i \in 1..Len(pushed) |-> pushed[i].rec]

\* ------------------------------------------------------------ claims

\* C1: the records written to the sink are, in order, the formatted first
\* records pushed (the banner, then one record per connection in the order
\* the Acceptor finished reading them); every pushed record is written, held
\* by the Committer or still queued, in that order, so none is lost,
\* duplicated or reordered.
C1_SinkIsPrefixOfPushed ==
  /\ Len(pushed) = Len(sink) + Len(log) + Len(logqueue)
  /\ \A i \in 1..Len(sink) :
       /\ pushed[i].rec[1] \in {HEADER, INFO, DEBUG, ERROR}
       /\ sink[i] \in commitLog(pushed[i].rec[1], pushed[i].rec[2], stdout)
  /\ \A k \in 1..Len(log) : log[k] = pushed[Len(sink) + k].rec
  /\ \A k \in 1..Len(logqueue) :
       logqueue[k] = pushed[Len(sink) + Len(log) + k].rec
  /\ \A i \in 1..(Len(pushed) - 1) : pushed[i].conn.id < pushed[i + 1].conn.id

\* C1 witness: the banner and two different client records have been
\* written
C1_Witness == Len(sink) = 3 /\ sink[2] # sink[3]

\* C2: with well-formed senders only and both threads scheduled fairly,
\* every record pushed is eventually written, a non-empty queue eventually
\* becomes empty, and from some point on the sink holds the banner and
\* exactly one line per connection made while the queue is empty (unless the
\* service failed to start).
C2_EveryPushedRecordWritten ==
  /\ \A i \in 1..(MaxConns + 1) :
       (Len(pushed) >= i) ~> (Len(sink) >= i \/ ~Running)
  /\ (logqueue # << >>) ~> (logqueue = << >> \/ ~Running)
  /\ <>[](~Running \/ (Len(sink) = nconn + 1 /\ logqueue = << >>))

\* C2 witness: every peer's record has been pushed and written and the
\* queue is empty
C2_Witness ==
  /\ Running
  /\ nconn = MaxConns
  /\ Len(pushed) = MaxConns + 1
  /\ Len(sink) = Len(pushed)
  /\ logqueue = << >>

C4_OneConnectionPerRecord ==
  /\ Cardinality(open) <= 1
  /\ \A i \in 1..Len(pushed) : pushed[i].src \subseteq {pushed[i].conn.id}
  /\ pcA = "read" => msgsrc \subseteq {msg_d[1].id}
  /\ InClientPush => (open = {} /\ msgsrc \subseteq {argconn.id})

\* C4 witness: a second sender's connection is established, with its frame
\* in flight, while the Acceptor is in the middle of reading the first
C4_Witness == msg_d # << >> /\ msgsrc # {} /\ backlog # << >>

\* C5: every access to logqueue is made by a thread that holds
\* logqueuelock, and the Committer never reads the queue while the main
\* thread is inside logqueue.push.
C5_QueueAccessUnderLock ==
  /\ pcA = "pq_push" => logqueuelock = "A"
  /\ pcC \in {"check", "pop_front"} => logqueuelock = "C"
  /\ ~(pcC = "check" /\ pcA = "pq_push")

\* C6: once the Committer has found the queue empty it takes no step (it
\* does not test the queue again) until a record has been pushed.
C6_NoSpinPoll ==
  [][(pcC = "spin" /\ pcC' # "spin") => logqueue # << >>]_vars

\* C7: no record is pushed for a connection that was closed by the peer
\* with zero bytes sent.
C7_NoRecordForEmptyConnection ==
  /\ \A i \in 1..Len(pushed) :
       ~(pushed[i].conn.id # 0 /\ pushed[i].conn.frame = << >>
         /\ pushed[i].conn.end = "close")
  /\ InClientPush => ~(argconn.frame = << >> /\ argconn.end = "close")

\* C8: for a frame whose prefix before the first ':' is an integer outside
\* 0..3, the loop body run on the first chunk ends in the abort of the
\* service; pushQueue is never entered for the connection and no record of
\* it is ever pushed.
C8_OutOfRangeRejected ==
  /\ \A i \in 1..Len(pushed) : pushed[i].conn.frame \notin OutOfRangeFrames
  /\ InClientPush => argconn.frame \notin OutOfRangeFrames
  /\ (FirstChunkRead /\ msg_d[1].frame \in OutOfRangeFrames) =>
       InFirstBody \/ (pcA = "abort" /\ status = "abort")

\* C8 witness: the frame "-1:x" has been read and the service has aborted
C8_Witness ==
  /\ FirstChunkRead
  /\ msg_d[1].frame = <<Str(<<"-", "1", ":", "x">>)>>
  /\ pcA = "abort"
  /\ status = "abort"

\* C9: for a frame whose prefix before the first ':' is non-numeric, the
\* loop body run on the first chunk ends the service, and no record of the
\* connection is pushed.
C9_NonNumericRejected ==
  /\ \A i \in 1..Len(pushed) : pushed[i].conn.frame \notin NonNumericFrames
  /\ InClientPush => argconn.frame \notin NonNumericFrames
  /\ (FirstChunkRead /\ msg_d[1].frame \in NonNumericFrames) =>
       InFirstBody \/ (pcA \in {"abort", "exit"} /\ ~Running)

\* C10: for a first chunk without ':', the loop body run on it ends in the
\* Acceptor's exit with a failure status: the later chunks are never read,
\* no record of the connection is pushed and no other connection is
\* accepted after.
C10_NoColonIsFatal ==
  /\ \A i \in 1..Len(pushed) : pushed[i].conn.frame \notin NoColonFrames
  /\ InClientPush => argconn.frame \notin NoColonFrames
  /\ (FirstChunkRead /\ msg_d[1].frame \in NoColonFrames) =>
       \/ InFirstBody
       \/ /\ pcA = "exit"
          /\ status = "exit_failure"
          /\ msg_d[1].chunks = Tail(msg_d[1].frame)
          /\ open = {msg_d[1].id}

\* C10 witness: the service has exited on a one-byte first chunk "1" while
\* the chunk ":a" that holds the ':' is still unread
C10_Witness ==
  /\ FirstChunkRead
  /\ msg_d[1].frame = <<Str(<<"1">>), Str(<<":", "a">>)>>
  /\ msg_d[1].chunks = <<Str(<<":", "a">>)>>
  /\ pcA = "exit"
  /\ status = "exit_failure"

\* the frame's first chunk holds ':' after a prefix written as [-]digits
NumericFrame(frame) ==
  /\ frame # << >>
  /\ HasColon(frame[1])
  /\ Digits(Prefix(frame[1])) # << >>

\* C11: every record pushed for a client connection has severity INFO, DEBUG
\* or ERROR, never HEADER; stated here for the connections whose frame
\* carries a decimal integer before its first ':' (the claim's other cases,
\* frames without such a prefix and connections without bytes, are those of
\* C9 and C7).
C11_HeaderOnlyFromBanner ==
  \A i \in 1..Len(pushed) :
    (pushed[i].conn.id # 0 /\ NumericFrame(pushed[i].conn.frame)) =>
      pushed[i].rec[1] \in {INFO, DEBUG, ERROR}

\* ------------------------------------------- formatting, as specified

\* the message ends in a newline
EndsInNewline(message) ==
  message # << >> /\ message[Len(message)] = Ord["LF"]

\* the text of a record: the message behind its severity's prefix
RefText(severity, message) ==
  CASE severity = HEADER -> message
    [] severity = INFO -> Str(<<"I", "n", "f", "o", ":", " ">>) \o message
    [] severity = DEBUG -> Str(<<"D", "e", "b", "u", "g", ":", " ">>) \o message
    [] severity = ERROR -> Str(<<"E", "r", "r", "o", "r", ":", " ">>) \o message

\* the severity's escape sequence
RefColour(severity) ==
  CASE severity = HEADER -> Reset
    [] severity = INFO -> Cyan
    [] severity = DEBUG -> Yellow
    [] severity = ERROR -> Red

\* The reference formatting of a record: the text, on an interactive sink
\* wrapped in the severity's escape sequence and reset (the reset written
\* once or twice: the statement does not fix their number), and a newline
\* appended when the message does not end in one.
RefFormats(severity, message, tty) ==
  LET nl == IF EndsInNewline(message) THEN << >> ELSE Str(<<"LF">>)
  IN IF tty
     THEN { RefColour(severity) \o RefText(severity, message) \o Reset \o nl,
            RefColour(severity) \o RefText(severity, message) \o Reset \o Reset \o nl }
     ELSE { RefText(severity, message) \o nl }

\* C12: every write to the sink carries the reference formatting of the
\* record it was made for.
C12_WrittenIsReference ==
  \A i \in 1..Len(sink) :
    (i <= Len(pushed) /\ Records[i][1] \in {HEADER, INFO, DEBUG, ERROR}) =>
      sink[i] \in RefFormats(Records[i][1], Records[i][2], stdout)

\* the number of newline bytes in a byte string
CountLF(bytestr) ==
  Cardinality({k \in 1..Len(bytestr) : bytestr[k] = Ord["LF"]})

\* C13: a record whose message ends in a newline is written with no newline
\* but those of the message: none is added behind it, on either sink.
C13_NoSecondNewline ==
  \A i \in 1..Len(sink) :
    (/\ i <= Len(pushed)
     /\ Records[i][1] \in {HEADER, INFO, DEBUG, ERROR}
     /\ EndsInNewline(Records[i][2])) =>
      CountLF(sink[i]) = CountLF(Records[i][2])

\* the bytes of the chunk behind its first ':'
AfterColon(chunk) == SubSeq(chunk, Len(Prefix(chunk)) + 2, Len(chunk))

\* the chunks, concatenated
RECURSIVE Concat(_)
Concat(chunks) ==
  IF chunks = << >> THEN << >> ELSE Head(chunks) \o Concat(Tail(chunks))

\* the message a frame carries: the bytes behind the first ':' of its first
\* chunk, then every byte of every later chunk
SentMessage(frame) == AfterColon(frame[1]) \o Concat(Tail(frame))

\* C14: the message of every record pushed for a connection whose first
\* chunk holds ':' is the message its frame carries, byte for byte.
C14_MessageIsPayload ==
  \A i \in 1..Len(pushed) :
    (/\ pushed[i].conn.id # 0
     /\ pushed[i].conn.frame # << >>
     /\ HasColon(pushed[i].conn.frame[1])) =>
      pushed[i].rec[2] = SentMessage(pushed[i].conn.frame)

\* C15: the process ends with status 0 only when a shutdown was requested
\* (an interrupt or a termination request), and every end the main thread or
\* the Committer makes on an error, in setup, in accept, on a protocol
\* violation or on an unrecognised severity, has a nonzero status.
C15_ZeroOnlyOnShutdownRequest ==
  /\ status = "exit_success" => signum \in {"SIGINT", "SIGTERM"}
  /\ pcA = "exit" => status = "exit_failure"
  /\ pcA = "abort" => status = "abort"
  /\ pcC = "exit" => status = "exit_failure"

\* C16: every finished call of writeLog returned -1 if one of its system
\* calls (socket, connect, write) failed and 0 if none did, and left no
\* socket open.
C16_WriteLogResult ==
  /\ \A i \in 1..Len(results) :
       /\ results[i].ret = (IF results[i].failed THEN 0 - 1 ELSE 0)
       /\ results[i].open = {}
  /\ pcW = "idle" => openW = {}

\* C17: every queued record, and the record the Committer holds, has a
\* severity in 0..3, and the Committer never takes the default branch of
\* commitLog.
C17_QueuedSeveritiesValid ==
  /\ \A i \in 1..Len(logqueue) :
       logqueue[i][1] \in {HEADER, INFO, DEBUG, ERROR}
  /\ \A i \in 1..Len(log) : log[i][1] \in {HEADER, INFO, DEBUG, ERROR}
  /\ pcC # "exit"

\* C18: every record taken from the queue is written by one write before
\* the next is taken (the writes, the record in the Committer's hands and the
\* queue account for every record pushed, and the Committer holds no record
\* when it turns to the queue), each write carries the whole formatted
\* record, and when the sink is the standard output nothing reaches it from
\* the main thread.
C18_SingleWriter ==
  /\ Len(sink) + Len(log) + Len(logqueue) = Len(pushed)
  /\ Len(log) <= 1
  /\ pcC \in {"check", "spin", "pop_lock", "pop_front"} => log = << >>
  /\ \A i \in 1..Len(sink) :
       sink[i] \in commitLog(Records[i][1], Records[i][2], stdout)
  /\ stdout => \A i \in 1..Len(stdio) : stdio[i][1] # "A"

\* C19: popQueue never reads front() of an empty queue: when the Committer
\* holds the mutex in popQueue the queue has a record, and while it waits
\* for the mutex the queue has one or the main thread is inside the push
\* the emptiness test raced with.
C19_PopOnNonEmpty ==
  /\ pcC = "pop_front" => (logqueue # << >> /\ logqueuelock = "C")
  /\ pcC = "pop_lock" => (logqueue # << >> \/ pcA = "pq_push")
  /\ pcC = "pop_unlock" => Len(log) = 1

\* C19 witness: popQueue has taken the only record of the queue while the
\* main thread waits for the mutex to push a client's record
C19_Witness ==
  /\ pcC = "pop_unlock"
  /\ Len(log) = 1
  /\ logqueue = << >>
  /\ InClientPush
  /\ pcA = "pq_lock"

\* C20: the main thread leaves accept for its fatal exit only when accept
\* failed: no step from accept to the exit takes a connection from the
\* backlog.
C20_AcceptExitOnlyOnAcceptFailure ==
  [][(pcA = "accept" /\ pcA' = "exit") => backlog' = backlog]_vars

====
